---- MODULE Spec2Model ----
(***************************************************************************)
(* A model of the k6 benchmark script for the BookCatalog service:         *)
(* src/benchmark.js and its earlier variant src/unnamed/part_000.          *)
(*                                                                         *)
(* The script is run by k6: the init code resolves the settings, setup()   *)
(* runs the warm-up, the constant-vus executor then runs VUS virtual users *)
(* that call the default function in a loop until DURATION has elapsed,    *)
(* and handleSummary() builds the report.  Every HTTP call is a point      *)
(* where a virtual user is suspended, so the default function is modelled  *)
(* one request and one response at a time.  The service under test is not  *)
(* modelled: each response is drawn from a set of possible responses.      *)
(***************************************************************************)
EXTENDS Integers, Sequences, FiniteSets, TLC

\* ------------------------------------------------------------------ bounds

\* The largest concurrency level (VUS) a run is configured with.
MaxVUS == 2
\* The largest number of iterations the virtual users start in a run, all
\* together.
MaxUnits == 2
\* The largest warm-up count (WARMUP_ITERATIONS) a run is configured with.
MaxWarmup == 2
\* The server-assigned identifiers a create response may carry are 1..MaxId.
MaxId == 1
\* The largest number of lines of the file .env.
MaxLines == 2

\* ----------------------------------------------------------- the variants

\* The two variants of the script.
Variants == {"benchmark", "part_000"}

Kinds == {"create", "read", "update", "delete"}

\* ------------------------------------------------- JavaScript values (ids)

\* What Response.json('id') may evaluate to.  A string is modelled by its
\* length: only the empty string is falsy.
Undefined == [t |-> "undefined", v |-> 0]
Null == [t |-> "null", v |-> 0]
Num(n) == [t |-> "number", v |-> n]
Str(len) == [t |-> "string", v |-> len]

\* A usable identifier, as the server assigns it.
Ids == {Num(n) : n \in 1..MaxId}

\* The values the "id" field of a JSON body may have.
IdValues == Ids \cup {Null, Num(0), Str(0)}

\* ------------------------------------------------------------- responses

\* The success status every check compares with.
StatusOK == 200

\* The latencies (timings.duration, in ms) a response may report.  The run
\* reads a latency only to add it to a Trend, so one value is drawn here;
\* SpecSummary below ranges over the sums handleSummary may find.
Durations == {10}

\* The body of a response: none at all (the request itself failed), text
\* that is not JSON, a JSON object without an "id" field, or one with it.
NoBody == [kind |-> "none", id |-> Undefined]
InvalidBody == [kind |-> "invalid", id |-> Undefined]
ObjectNoId == [kind |-> "object", id |-> Undefined]
ObjectWithId(x) == [kind |-> "objectid", id |-> x]

\* The responses http.post may return: a connectivity error has status 0 and
\* no body; otherwise the server answers with some status and some body.
PostResponsesOf(durations) ==
    {[status |-> 0, body |-> NoBody, duration |-> d] : d \in durations}
    \cup {[status |-> s, body |-> b, duration |-> d] :
            s \in {StatusOK, 500},
            b \in {InvalidBody, ObjectNoId} \cup {ObjectWithId(x) : x \in IdValues},
            d \in durations}

PostResponses == PostResponsesOf(Durations)

\* The responses http.get, http.put and http.del may return; their bodies
\* are never read.
PlainResponsesOf(durations) ==
    {[status |-> 0, body |-> NoBody, duration |-> d] : d \in durations}
    \cup {[status |-> s, body |-> InvalidBody, duration |-> d] :
            s \in {StatusOK, 500}, d \in durations}

PlainResponses == PlainResponsesOf(Durations)

\* Response.json('id') of k6: it throws when the response has no body, and
\* evaluates to undefined when the body is not JSON or has no such field.
JsonThrows(r) == r.body.kind = "none"

JsonId(r) ==
    IF r.body.kind = "objectid" THEN r.body.id ELSE Undefined

\* if (bookId): JavaScript truthiness of the value read from the create
\* response.  undefined, null, 0 and the empty string are falsy.
Truthy(x) ==
    /\ x.t \in {"number", "string"}
    /\ x.v # 0

\* The check 'POST response has ID': r.json('id') !== null.
HasIdCheck(r) == JsonId(r) # Null

\* Mutant: every status below 400 passes the status check.
StatusCheckBelow400(r) == r.status < 400

\* The checks '<METHOD> status is 200': r.status === 200.
StatusCheck(r) == r.status = StatusOK

\* ------------------------------------------------------------- the state

VARIABLES
    variant,            \* which variant of the script runs
    observed,           \* what is recorded about the run: "metrics", "log"
    ENV,                \* __ENV: the environment variables k6 was started with
    dotenv,             \* the file .env of the working directory
    SERVICE_NAME,       \* the resolved settings: four strings,
    BASE_URL,
    DURATION,
    DATABASE_TYPE,
    VUS,                \* the resolved concurrency level
    WARMUP_ITERATIONS,  \* the resolved warm-up count
    phase,              \* "init", "rejected", "setup", "run", "done" or "aborted"
    i,                  \* setup: the warm-up loop index
    spc,                \* setup: the next request of the warm-up iteration
    warmBookId,         \* setup: bookId of the current warm-up iteration
    warmReq,            \* requests issued by setup, per kind
    warmFailed,         \* failed checks of the current warm-up iteration
    trend,              \* the four Trend metrics: count and sum per kind
    deadline,           \* whether DURATION has elapsed since the run started
    pc,                 \* per VU: where it is in the default function
    iter,               \* per VU: the number of iterations it has started
    book,               \* per VU: the titles it has generated, in order
    bookId,             \* per VU: bookId of the current iteration
    failed,             \* per VU: the failed checks of the response it handled last
    samples,            \* per VU: kinds of the samples the current iteration added
    ended,              \* per VU: how its last iteration ended
    http_req_failed,    \* k6's Rate metric over all the requests of the run
    http_req_duration,  \* k6's Trend metric over them: the durations, sorted
    log,                \* per VU: the requests it has issued, in order
    warmLog,            \* the requests setup has issued, in order
    thresholdsCrossed,  \* the thresholds k6 found crossed when the run ended
    report              \* what handleSummary returned

vars ==
    <<variant, observed, ENV, dotenv, SERVICE_NAME, BASE_URL, DURATION, DATABASE_TYPE,
      VUS, WARMUP_ITERATIONS, phase, i, spc, warmBookId, warmReq,
      warmFailed, trend, deadline, pc, iter, book, bookId, failed, samples,
      ended, http_req_failed, http_req_duration, log, warmLog,
      thresholdsCrossed, report>>

setupVars == <<i, spc, warmBookId, warmReq, warmFailed>>
vuVars == <<pc, iter, book, bookId, failed, samples, ended>>
httpVars == <<http_req_failed, http_req_duration>>
confVars ==
    <<variant, observed, ENV, dotenv, SERVICE_NAME, BASE_URL, DURATION, DATABASE_TYPE,
      VUS, WARMUP_ITERATIONS>>

\* The virtual users of the run: k6 numbers them from 1 (__VU).
VUs == 1..VUS

\* new Trend(...): a metric with no sample.
NewTrend == [count |-> 0, sum |-> 0]

\* Mutant: contributions are not serialised, and a sample added while the
\* metric holds another one replaces it.
TrendAddUnserialised(t, kind, duration) ==
    [t EXCEPT ![kind] = [count |-> 1, sum |-> duration]]

\* Trend.add(duration) on the metric of one kind.
TrendAdd(t, kind, duration) ==
    [t EXCEPT ![kind] = [count |-> @.count + 1, sum |-> @.sum + duration]]

\* k6's built-in metrics of HTTP requests, fed by every request of the run,
\* those of setup included.  A response counts as failed unless its status
\* is one k6 expects: by default 200 to 399, so the status 0 of a request
\* that got no response is not.
ExpectedStatus(r) == r.status >= 200 /\ r.status <= 399

NewRate == [passes |-> 0, fails |-> 0]

RateAdd(m, isFailed) ==
    IF isFailed
    THEN [m EXCEPT !.fails = @ + 1]
    ELSE [m EXCEPT !.passes = @ + 1]

\* The samples of a Trend, kept in ascending order as k6 sorts them to
\* compute a percentile.
RECURSIVE SortedInsert(_, _)
SortedInsert(values, d) ==
    IF values = <<>> \/ d <= Head(values)
    THEN <<d>> \o values
    ELSE <<Head(values)>> \o SortedInsert(Tail(values), d)

\* The built-in metrics and the log of requests observe the run and have
\* no part in it.  A specification records them when its properties read
\* them: observed says which, and is fixed for the run.
Observers == {"metrics", "log"}

HttpMetrics(r) ==
    IF "metrics" \in observed
    THEN /\ http_req_failed' = RateAdd(http_req_failed, ~ExpectedStatus(r))
         /\ http_req_duration' = SortedInsert(http_req_duration, r.duration)
    ELSE UNCHANGED httpVars

\* The record of a request: the iteration that issued it, its method, the
\* identifier its URL ends with (none for a create), whether its response
\* has arrived, and from the response its duration and, for a create, the
\* usable identifier it returned.
Request(unit, method, target) ==
    [unit |-> unit, method |-> method, target |-> target, answered |-> FALSE,
     id |-> Undefined, duration |-> 0]

Answered(request, r) ==
    [request EXCEPT
        !.answered = TRUE,
        !.duration = r.duration,
        !.id = IF request.method = "post" /\ ~JsonThrows(r) /\ Truthy(JsonId(r))
               THEN JsonId(r)
               ELSE Undefined]

\* The response to the request a VU issued last has arrived.
AnswerLast(requests, r) ==
    [requests EXCEPT ![Len(requests)] = Answered(@, r)]

\* The log after the requests of VU w have become requests.
Logged(w, requests) ==
    IF "log" \in observed THEN [log EXCEPT ![w] = requests] ELSE log

WarmLogged(request) ==
    IF "log" \in observed THEN Append(warmLog, request) ELSE warmLog

\* ------------------------------------------------------------ thresholds

\* Rate: the share of the samples that are not zero, 0 without samples.
RateValue(m) ==
    IF m.passes + m.fails = 0
    THEN [n |-> 0, d |-> 1]
    ELSE [n |-> m.fails, d |-> m.passes + m.fails]

\* p(95) of a Trend as k6 computes it: over the sorted samples, the value
\* at position 0.95 * (count - 1), interpolated between its neighbours.
P95(values) ==
    IF Len(values) = 0 THEN [n |-> 0, d |-> 1]
    ELSE IF Len(values) = 1 THEN [n |-> values[1], d |-> 1]
    ELSE LET x == 95 * (Len(values) - 1)
             j == values[(x \div 100) + 1]
             k == values[((x + 99) \div 100) + 1]
         IN  [n |-> 100 * j + (k - j) * (x % 100), d |-> 100]

\* thresholds: 'http_req_failed': ['rate<0.01'] and
\* 'http_req_duration': ['p(95)<2000'].  The thresholds that do not hold.
CrossedThresholds ==
    {t \in {"http_req_failed"} : ~(100 * RateValue(http_req_failed).n
                                      < RateValue(http_req_failed).d)}
    \cup {t \in {"http_req_duration"} : ~(P95(http_req_duration).n
                                          < 2000 * P95(http_req_duration).d)}

\* Mutant: the thresholds are written with abortOnFail: true.
abortOnFailSet == TRUE

\* The thresholds are written in the short form, a list of expressions:
\* none of them has abortOnFail.
abortOnFail == FALSE

\* k6 stops a run in which a threshold that has abortOnFail is crossed.
ThresholdAborts == abortOnFail /\ CrossedThresholds # {}

\* The iterations started so far in the run.
RECURSIVE SumTo(_, _)
SumTo(f, n) == IF n = 0 THEN 0 ELSE f[n] + SumTo(f, n - 1)

Started == SumTo(iter, VUS)

\* ----------------------------------------------------------- the settings

\* The six settings of the script.
SettingKeys ==
    {"SERVICE_NAME", "BASE_URL", "VUS", "DURATION", "WARMUP_ITERATIONS",
     "DATABASE_TYPE"}

\* A string is the sequence of its characters.  The hard-coded defaults:
\* the two variants differ in the port of BASE_URL.
DefaultOf(v, key) ==
    CASE key = "SERVICE_NAME" -> 
            <<"b", "o", "o", "k", "c", "a", "t", "a", "l", "o", "g", "-",
              "n", "d", "-", "a", "p", "p">>
      [] key = "BASE_URL" ->
            IF v = "benchmark"
            THEN <<"h", "t", "t", "p", ":", "/", "/", "l", "o", "c", "a",
                   "l", "h", "o", "s", "t", ":", "8", "0", "8", "1", "/",
                   "a", "p", "i", "/", "b", "o", "o", "k", "s">>
            ELSE <<"h", "t", "t", "p", ":", "/", "/", "l", "o", "c", "a",
                   "l", "h", "o", "s", "t", ":", "8", "0", "8", "0", "/",
                   "a", "p", "i", "/", "b", "o", "o", "k", "s">>
      [] key = "VUS" -> <<"1">>
      [] key = "DURATION" -> <<"3", "0", "s">>
      [] key = "WARMUP_ITERATIONS" -> <<"0">>
      [] key = "DATABASE_TYPE" -> <<"s", "q", "l", "i", "t", "e">>

\* String.prototype.trim, on the white space drawn here (the blank).
RECURSIVE TrimStart(_)
TrimStart(s) ==
    IF s # <<>> /\ Head(s) = " " THEN TrimStart(Tail(s)) ELSE s

RECURSIVE TrimEnd(_)
TrimEnd(s) ==
    IF s # <<>> /\ s[Len(s)] = " "
    THEN TrimEnd(SubSeq(s, 1, Len(s) - 1))
    ELSE s

Trim(s) == TrimEnd(TrimStart(s))

\* .replace(/^['"]|['"]$/g, ''): one quote character is removed at the start
\* and one at the end, each on its own.
QuoteChars == {"'", "\""}

StripQuotes(s) ==
    LET a == IF s # <<>> /\ Head(s) \in QuoteChars THEN Tail(s) ELSE s
    IN  IF a # <<>> /\ a[Len(a)] \in QuoteChars
        THEN SubSeq(a, 1, Len(a) - 1)
        ELSE a

\* The file .env: it cannot be opened, or it has lines.  A line is blank, a
\* comment, a text without '=', or a pair: the trimmed text before the first
\* '=' (the name of a setting, or "" when there is none) and the text after it.
NoFile == [exists |-> FALSE, lines |-> <<>>]
FileOf(lines) == [exists |-> TRUE, lines |-> lines]
PlainLine(kind) == [kind |-> kind, key |-> "", value |-> <<>>]
PairLine(key, value) == [kind |-> "pair", key |-> key, value |-> value]

\* The object without properties, {}.
EmptyObject == [k \in {} |-> <<>>]

\* One step of the reduce of loadEnvFile: a line that is not a pair, or
\* whose key is empty, leaves acc alone; a pair sets acc[key] to its value,
\* trimmed and then stripped of its quotes.
EnvFileLine(acc, line) ==
    IF line.kind # "pair" \/ line.key = ""
    THEN acc
    ELSE [k \in DOMAIN acc \cup {line.key} |->
            IF k = line.key THEN StripQuotes(Trim(line.value)) ELSE acc[k]]

RECURSIVE EnvFileReduce(_, _)
EnvFileReduce(acc, lines) ==
    IF lines = <<>>
    THEN acc
    ELSE EnvFileReduce(EnvFileLine(acc, Head(lines)), Tail(lines))

\* loadEnvFile(): open throws on a file that cannot be read and the catch
\* block returns {}.
loadEnvFile(file) ==
    IF file.exists THEN EnvFileReduce(EmptyObject, file.lines) ELSE EmptyObject

\* const envFile = loadEnvFile() in benchmark.js; part_000 reads no file.
envFile ==
    IF variant = "benchmark" THEN loadEnvFile(dotenv) ELSE EmptyObject

\* obj.key as the operand of ||: whether it is truthy.  A property that is
\* not there is undefined; the empty string is falsy.
Has(obj, key) == key \in DOMAIN obj /\ obj[key] # <<>>

\* Mutant: the file takes precedence over the environment.
SettingFileFirst(key) ==
    IF Has(envFile, key) THEN envFile[key]
    ELSE IF Has(ENV, key) THEN ENV[key]
    ELSE DefaultOf(variant, key)

\* __ENV.KEY || envFile.KEY || 'default'
Setting(key) ==
    IF Has(ENV, key) THEN ENV[key]
    ELSE IF Has(envFile, key) THEN envFile[key]
    ELSE DefaultOf(variant, key)

\* The digits of parseInt, in the order of their values.
DigitChars ==
    <<"0", "1", "2", "3", "4", "5", "6", "7", "8", "9",
      "a", "b", "c", "d", "e", "f">>

IsDigit(c, radix) == \E d \in 1..radix : DigitChars[d] = c
DigitValue(c) == (CHOOSE d \in 1..Len(DigitChars) : DigitChars[d] = c) - 1

\* A number of JavaScript as parseInt returns it: NaN, or an integer.
NaN == [nan |-> TRUE, v |-> 0]
Integer(n) == [nan |-> FALSE, v |-> n]

\* The longest prefix of s made of digits of the radix, read as a number;
\* NaN when it is empty.
RECURSIVE ParseDigits(_, _, _, _)
ParseDigits(s, radix, acc, any) ==
    IF s # <<>> /\ IsDigit(Head(s), radix)
    THEN ParseDigits(Tail(s), radix, acc * radix + DigitValue(Head(s)), TRUE)
    ELSE IF any THEN Integer(acc) ELSE NaN

\* parseInt(s) without a radix: leading white space is skipped, a sign is
\* read, a prefix 0x selects radix 16, and the digits that follow are read
\* up to the first character that is not one.
parseInt(s) ==
    LET t == TrimStart(s)
        signed == t # <<>> /\ Head(t) \in {"-", "+"}
        u == IF signed THEN Tail(t) ELSE t
        hex == Len(u) >= 2 /\ u[1] = "0" /\ u[2] = "x"
        n == IF hex THEN ParseDigits(Tail(Tail(u)), 16, 0, FALSE)
                    ELSE ParseDigits(u, 10, 0, FALSE)
    IN  IF ~n.nan /\ signed /\ Head(t) = "-" THEN Integer(0 - n.v) ELSE n

\* options.scenarios.test.vus as k6 takes it: k6 cannot read options that
\* hold NaN, and the constant-vus executor wants at least one VU.
VusAccepted(n) == ~n.nan /\ n.v >= 1

\* What the script reads WARMUP_ITERATIONS for: WARMUP_ITERATIONS > 0 and
\* i < WARMUP_ITERATIONS.  Every comparison with NaN is false, as it is
\* with 0 for i >= 0.
LoopBound(n) == IF n.nan THEN 0 ELSE n.v

\* The init code: the settings are resolved, and k6 reads options.  When
\* it accepts them, setup is next and the executor will run VUS virtual
\* users; when it does not, the run is over before setup.
InitContext ==
    /\ phase = "init"
    /\ SERVICE_NAME' = Setting("SERVICE_NAME")
    /\ BASE_URL' = Setting("BASE_URL")
    /\ DURATION' = Setting("DURATION")
    /\ DATABASE_TYPE' = Setting("DATABASE_TYPE")
    /\ WARMUP_ITERATIONS' = LoopBound(parseInt(Setting("WARMUP_ITERATIONS")))
    /\ LET n == parseInt(Setting("VUS"))
       IN  IF VusAccepted(n)
           THEN /\ VUS' = n.v
                /\ phase' = "setup"
           ELSE /\ VUS' = 0
                /\ phase' = "rejected"
    /\ pc' = [w \in 1..VUS' |-> "idle"]
    /\ iter' = [w \in 1..VUS' |-> 0]
    /\ book' = [w \in 1..VUS' |-> <<>>]
    /\ bookId' = [w \in 1..VUS' |-> Undefined]
    /\ failed' = [w \in 1..VUS' |-> {}]
    /\ samples' = [w \in 1..VUS' |-> <<>>]
    /\ ended' = [w \in 1..VUS' |-> "none"]
    /\ log' = [w \in 1..VUS' |-> <<>>]
    /\ UNCHANGED <<variant, observed, ENV, dotenv, setupVars, trend, deadline,
                   report, httpVars, warmLog, thresholdsCrossed>>

\* The text of a number, as the shell writes it into an environment
\* variable.
RECURSIVE NumText(_)
NumText(n) ==
    IF n < 10 THEN <<DigitChars[n + 1]>>
    ELSE NumText(n \div 10) \o <<DigitChars[(n % 10) + 1]>>

\* The environments of the runs: VUS set to a concurrency level; or VUS 1
\* and a warm-up count; or VUS set to a text that is not a number in base
\* 10, with and without leading digits.  The warm-up is over before the
\* first VU exists, and nothing of it reaches the default function: the
\* warm-up counts are explored with one VU, the concurrency levels without
\* warm-up.
RunEnvs ==
    {[k \in {"VUS"} |-> NumText(n)] : n \in 1..MaxVUS}
    \cup {[k \in {"VUS", "WARMUP_ITERATIONS"} |->
              IF k = "VUS" THEN <<"1">> ELSE NumText(w)] : w \in 1..MaxWarmup}
    \cup {[k \in {"VUS"} |-> t] : t \in {<<"1", "a">>, <<"a">>}}

\* Before the init code has run: nothing is resolved and no VU exists.
Init ==
    /\ variant \in Variants
    /\ observed = {}
    /\ ENV \in RunEnvs
    /\ dotenv = NoFile
    /\ SERVICE_NAME = <<>>
    /\ BASE_URL = <<>>
    /\ DURATION = <<>>
    /\ DATABASE_TYPE = <<>>
    /\ VUS = 0
    /\ WARMUP_ITERATIONS = 0
    /\ phase = "init"
    /\ i = 0
    /\ spc = "post"
    /\ warmBookId = Undefined
    /\ warmReq = [k \in Kinds |-> 0]
    /\ warmFailed = {}
    /\ trend = [k \in Kinds |-> NewTrend]
    /\ deadline = FALSE
    /\ pc = [w \in VUs |-> "idle"]
    /\ iter = [w \in VUs |-> 0]
    /\ book = [w \in VUs |-> <<>>]
    /\ bookId = [w \in VUs |-> Undefined]
    /\ failed = [w \in VUs |-> {}]
    /\ samples = [w \in VUs |-> <<>>]
    /\ ended = [w \in VUs |-> "none"]
    /\ http_req_failed = NewRate
    /\ http_req_duration = <<>>
    /\ log = [w \in VUs |-> <<>>]
    /\ warmLog = <<>>
    /\ thresholdsCrossed = {}
    /\ report = [kind |-> "none"]

\* ------------------------------------------------------------ setup

\* Mutant: the loop bound is off by one (i <= WARMUP_ITERATIONS).
WarmupLoopRunsOnceMore(n) ==
    /\ variant = "benchmark" => WARMUP_ITERATIONS > 0
    /\ n <= WARMUP_ITERATIONS

\* Whether setup runs warm-up iteration n.  benchmark.js guards the loop
\* with WARMUP_ITERATIONS > 0; in both variants the loop runs while
\* i < WARMUP_ITERATIONS.
WarmupLoopRuns(n) ==
    /\ variant = "benchmark" => WARMUP_ITERATIONS > 0
    /\ n < WARMUP_ITERATIONS

\* Mutant: setup records the latency of its requests as the default
\* function does.
WarmupTrendAdds(t, kind, r) == TrendAdd(t, kind, r.duration)

\* What a warm-up request does to the Trend metrics: setup calls http
\* directly and never calls Trend.add.
WarmupTrend(t, kind, r) == t

\* The checks of a warm-up response: part_000 checks the status of every
\* warm-up response, benchmark.js checks nothing in setup.
WarmupCheck(name, r) ==
    IF variant = "part_000" /\ ~StatusCheck(r) THEN {name} ELSE {}

\* The end of one warm-up iteration: its bookId goes out of scope, and i++.
WarmupIterationEnds ==
    /\ i' = i + 1
    /\ spc' = "post"
    /\ warmBookId' = Undefined

\* http.post of warm-up iteration i, and postResult.json('id').  On a
\* response without a body json() throws: the exception leaves setup, and
\* k6 aborts a run whose setup threw.
SetupPost(r) ==
    /\ phase = "setup"
    /\ spc = "post"
    /\ WarmupLoopRuns(i)
    /\ warmReq' = [warmReq EXCEPT !["create"] = @ + 1]
    /\ trend' = WarmupTrend(trend, "create", r)
    /\ warmFailed' = WarmupCheck("Warm-up POST status is 200", r)
    /\ IF JsonThrows(r)
       THEN /\ phase' = "aborted"
            /\ UNCHANGED <<i, spc, warmBookId>>
       ELSE /\ phase' = phase
            /\ IF Truthy(JsonId(r))
               THEN /\ spc' = "get"
                    /\ i' = i
                    /\ warmBookId' = JsonId(r)
               ELSE WarmupIterationEnds
    /\ HttpMetrics(r)
    /\ warmLog' = WarmLogged(Answered(Request(i, "post", Undefined), r))
    /\ UNCHANGED <<confVars, deadline, vuVars, report, log, thresholdsCrossed>>

\* http.get of the warm-up iteration.
SetupGet(r) ==
    /\ phase = "setup"
    /\ spc = "get"
    /\ warmReq' = [warmReq EXCEPT !["read"] = @ + 1]
    /\ trend' = WarmupTrend(trend, "read", r)
    /\ warmFailed' = warmFailed \cup WarmupCheck("Warm-up GET status is 200", r)
    /\ HttpMetrics(r)
    /\ warmLog' = WarmLogged(Answered(Request(i, "get", warmBookId), r))
    /\ spc' = "put"
    /\ UNCHANGED <<confVars, phase, i, warmBookId, deadline, vuVars, report,
                   log, thresholdsCrossed>>

\* Mutant: the warm-up iteration ends with its update and deletes nothing.
SetupPutEndsIteration(r) ==
    /\ phase = "setup"
    /\ spc = "put"
    /\ warmReq' = [warmReq EXCEPT !["update"] = @ + 1]
    /\ trend' = WarmupTrend(trend, "update", r)
    /\ warmFailed' = warmFailed \cup WarmupCheck("Warm-up PUT status is 200", r)
    /\ HttpMetrics(r)
    /\ warmLog' = WarmLogged(Answered(Request(i, "put", warmBookId), r))
    /\ WarmupIterationEnds
    /\ UNCHANGED <<confVars, phase, deadline, vuVars, report, log,
                   thresholdsCrossed>>

\* http.put of the warm-up iteration.
SetupPut(r) ==
    /\ phase = "setup"
    /\ spc = "put"
    /\ warmReq' = [warmReq EXCEPT !["update"] = @ + 1]
    /\ trend' = WarmupTrend(trend, "update", r)
    /\ warmFailed' = warmFailed \cup WarmupCheck("Warm-up PUT status is 200", r)
    /\ HttpMetrics(r)
    /\ warmLog' = WarmLogged(Answered(Request(i, "put", warmBookId), r))
    /\ spc' = "del"
    /\ UNCHANGED <<confVars, phase, i, warmBookId, deadline, vuVars, report,
                   log, thresholdsCrossed>>

\* http.del of the warm-up iteration, which ends the iteration.
SetupDel(r) ==
    /\ phase = "setup"
    /\ spc = "del"
    /\ warmReq' = [warmReq EXCEPT !["delete"] = @ + 1]
    /\ trend' = WarmupTrend(trend, "delete", r)
    /\ warmFailed' = warmFailed \cup WarmupCheck("Warm-up DELETE status is 200", r)
    /\ HttpMetrics(r)
    /\ warmLog' = WarmLogged(Answered(Request(i, "del", warmBookId), r))
    /\ WarmupIterationEnds
    /\ UNCHANGED <<confVars, phase, deadline, vuVars, report, log,
                   thresholdsCrossed>>

\* setup returns: the executor starts the virtual users and its clock.
SetupReturn ==
    /\ phase = "setup"
    /\ spc = "post"
    /\ ~WarmupLoopRuns(i)
    /\ phase' = "run"
    /\ warmFailed' = {}
    /\ UNCHANGED <<confVars, i, spc, warmBookId, warmReq, trend, deadline,
                   vuVars, report, httpVars, log, warmLog, thresholdsCrossed>>

\* ------------------------------------------------- the default function

\* The decimal digits of n, as number-to-string conversion writes them.
RECURSIVE Digits(_)
Digits(n) ==
    IF n < 10 THEN <<n>> ELSE Digits(n \div 10) \o <<n % 10>>

\* Mutant: the title is built from __ITER alone.
TitleWithoutVU(vu, it) == Digits(it)

\* `Test Book ${__VU}_${__ITER}`: the characters that follow the fixed
\* prefix.  A digit is written as its value and the underscore as -1.
Title(vu, it) == Digits(vu) \o <<-1>> \o Digits(it)

\* The checks of the create response that fail.  A check whose function
\* throws counts as failed.
PostChecksFailed(r) ==
    (IF StatusCheck(r) THEN {} ELSE {"POST status is 200"})
    \cup (IF ~JsonThrows(r) /\ HasIdCheck(r) THEN {} ELSE {"POST response has ID"})

\* The check of a read, update or delete response that fails.
PlainCheckFailed(name, r) ==
    IF StatusCheck(r) THEN {} ELSE {name}

\* The default function is entered: k6 calls it while the duration has not
\* elapsed (and, here, while the run has started fewer than MaxUnits
\* iterations).  It builds the book from __VU and __ITER and issues http.post.
DefaultPost(w) ==
    /\ phase = "run"
    /\ pc[w] = "idle"
    /\ ~deadline
    /\ ~ThresholdAborts
    /\ Started < MaxUnits
    /\ pc' = [pc EXCEPT ![w] = "post"]
    /\ book' = [book EXCEPT ![w] = Append(@, Title(w, iter[w]))]
    /\ iter' = [iter EXCEPT ![w] = @ + 1]
    /\ bookId' = [bookId EXCEPT ![w] = Undefined]
    /\ failed' = [failed EXCEPT ![w] = {}]
    /\ samples' = [samples EXCEPT ![w] = <<>>]
    /\ ended' = [ended EXCEPT ![w] = "running"]
    /\ log' = Logged(w, Append(log[w], Request(iter[w], "post", Undefined)))
    /\ UNCHANGED <<confVars, phase, setupVars, trend, deadline, report,
                   httpVars, warmLog, thresholdsCrossed>>

\* Mutant: the steps after create are not guarded by if (bookId).
AfterCreateUnguarded(id) == "sleep1"

\* Where the default function goes after the create response: into the
\* if (bookId) block, which starts with sleep(0.1), or to its end.
AfterCreate(id) ==
    IF Truthy(id) THEN "sleep1" ELSE "idle"

\* The create response arrives: createLatency.add, the two checks, and
\* bookId.  When json() throws inside the check, k6 counts the check as
\* failed and rethrows: the exception ends the iteration, not the VU.
DefaultPostResponse(w, r) ==
    /\ phase = "run"
    /\ pc[w] = "post"
    /\ trend' = TrendAdd(trend, "create", r.duration)
    /\ samples' = [samples EXCEPT ![w] = Append(@, "create")]
    /\ failed' = [failed EXCEPT ![w] = PostChecksFailed(r)]
    /\ HttpMetrics(r)
    /\ log' = Logged(w, AnswerLast(log[w], r))
    /\ IF JsonThrows(r)
       THEN /\ pc' = [pc EXCEPT ![w] = "idle"]
            /\ ended' = [ended EXCEPT ![w] = "threw"]
            /\ bookId' = bookId
       ELSE /\ bookId' = [bookId EXCEPT ![w] = JsonId(r)]
            /\ pc' = [pc EXCEPT ![w] = AfterCreate(JsonId(r))]
            /\ ended' = [ended EXCEPT ![w] =
                            IF AfterCreate(JsonId(r)) = "idle"
                            THEN "returned" ELSE @]
    /\ UNCHANGED <<confVars, phase, setupVars, deadline, iter, book, report,
                   warmLog, thresholdsCrossed>>

\* Mutant: the update is issued before the read.
RequestAfterUpdateFirst(sleep) ==
    CASE sleep = "sleep1" -> "put"
      [] sleep = "sleep2" -> "get"
      [] sleep = "sleep3" -> "del"

\* The request that follows each pause.
RequestAfter(sleep) ==
    CASE sleep = "sleep1" -> "get"
      [] sleep = "sleep2" -> "put"
      [] sleep = "sleep3" -> "del"

\* Mutant: a response whose status check fails ends the unit.
AfterResponseGated(req, r) ==
    IF r.status # StatusOK
    THEN "sleep4"
    ELSE CASE req = "get" -> "sleep2"
           [] req = "put" -> "sleep3"
           [] req = "del" -> "sleep4"

\* The result of check() is not used: whatever the response r, the pause
\* before the next step follows.
AfterResponse(req, r) ==
    CASE req = "get" -> "sleep2"
      [] req = "put" -> "sleep3"
      [] req = "del" -> "sleep4"

\* Mutant: the latency of the read goes to updateLatency and that of the
\* update to getLatency.
KindOfReadAsUpdate(req) ==
    CASE req = "post" -> "create"
      [] req = "get" -> "update"
      [] req = "put" -> "read"
      [] req = "del" -> "delete"

\* The Trend each request adds its latency to.
KindOf(req) ==
    CASE req = "post" -> "create"
      [] req = "get" -> "read"
      [] req = "put" -> "update"
      [] req = "del" -> "delete"

CheckOf(req) ==
    CASE req = "get" -> "GET status is 200"
      [] req = "put" -> "PUT status is 200"
      [] req = "del" -> "DELETE status is 200"

\* Mutant: bookId is shared by the virtual users, and a request goes to the
\* identifier the neighbour holds.
TargetOfNeighbour(w) == bookId[(w % VUS) + 1]

\* `${BASE_URL}/${bookId}`: the identifier a read, update or delete request
\* of VU w is addressed to.
Target(w) == bookId[w]

\* sleep(0.1) is over: the next request (http.get, http.put or http.del)
\* is issued for bookId.
DefaultRequest(w) ==
    /\ phase = "run"
    /\ pc[w] \in {"sleep1", "sleep2", "sleep3"}
    /\ pc' = [pc EXCEPT ![w] = RequestAfter(@)]
    /\ failed' = [failed EXCEPT ![w] = {}]
    /\ log' = Logged(w, Append(log[w], Request(iter[w] - 1, RequestAfter(pc[w]),
                                                 Target(w))))
    /\ UNCHANGED <<confVars, phase, setupVars, trend, deadline, iter, book,
                   bookId, samples, ended, report, httpVars, warmLog,
                   thresholdsCrossed>>

\* The read, update or delete response arrives: its Trend.add and its
\* check, then sleep(0.1).
DefaultResponse(w, r) ==
    /\ phase = "run"
    /\ pc[w] \in {"get", "put", "del"}
    /\ trend' = TrendAdd(trend, KindOf(pc[w]), r.duration)
    /\ samples' = [samples EXCEPT ![w] = Append(@, KindOf(pc[w]))]
    /\ failed' = [failed EXCEPT ![w] = PlainCheckFailed(CheckOf(pc[w]), r)]
    /\ HttpMetrics(r)
    /\ log' = Logged(w, AnswerLast(log[w], r))
    /\ pc' = [pc EXCEPT ![w] = AfterResponse(@, r)]
    /\ UNCHANGED <<confVars, phase, setupVars, deadline, iter, book, bookId,
                   ended, report, warmLog, thresholdsCrossed>>

\* The last sleep(0.1) is over: the default function returns.
DefaultReturn(w) ==
    /\ phase = "run"
    /\ pc[w] = "sleep4"
    /\ pc' = [pc EXCEPT ![w] = "idle"]
    /\ ended' = [ended EXCEPT ![w] = "returned"]
    /\ UNCHANGED <<confVars, phase, setupVars, trend, deadline, iter, book,
                   bookId, failed, samples, report, httpVars, log, warmLog,
                   thresholdsCrossed>>

\* --------------------------------------------- the constant-vus executor

\* Mutant: the executor cancels the iterations in flight at the deadline.
DeadlineCancels ==
    /\ phase = "run"
    /\ ~deadline
    /\ deadline' = TRUE
    /\ pc' = [w \in VUs |-> IF pc[w] \notin {"idle", "exited"} THEN "exited" ELSE pc[w]]
    /\ ended' = [w \in VUs |-> IF pc[w] \notin {"idle", "exited"} THEN "interrupted" ELSE ended[w]]
    /\ bookId' = [w \in VUs |-> IF pc[w] \notin {"idle", "exited"} THEN Undefined ELSE bookId[w]]
    /\ failed' = [w \in VUs |-> IF pc[w] \notin {"idle", "exited"} THEN {} ELSE failed[w]]
    /\ samples' = [w \in VUs |-> IF pc[w] \notin {"idle", "exited"} THEN <<>> ELSE samples[w]]
    /\ UNCHANGED <<confVars, phase, setupVars, trend, iter, book, report,
                   httpVars, log, warmLog, thresholdsCrossed>>

\* DURATION has elapsed since the executor started.
DeadlinePasses ==
    /\ phase = "run"
    /\ ~deadline
    /\ deadline' = TRUE
    /\ UNCHANGED <<confVars, phase, setupVars, trend, vuVars, report,
                   httpVars, log, warmLog, thresholdsCrossed>>

\* A VU that is between iterations when the duration has elapsed starts no
\* other iteration: it leaves the executor, and the locals of its last
\* iteration with it.
VUExit(w) ==
    /\ phase = "run"
    /\ deadline
    /\ pc[w] = "idle"
    /\ pc' = [pc EXCEPT ![w] = "exited"]
    /\ bookId' = [bookId EXCEPT ![w] = Undefined]
    /\ failed' = [failed EXCEPT ![w] = {}]
    /\ samples' = [samples EXCEPT ![w] = <<>>]
    /\ UNCHANGED <<confVars, phase, setupVars, trend, deadline, iter, book,
                   ended, report, httpVars, log, warmLog, thresholdsCrossed>>

\* The scenario sets no gracefulStop, so k6's default period applies: the
\* iterations still running when it expires are interrupted.
InFlight(w) == pc[w] \notin {"idle", "exited"}

GracefulStop ==
    /\ phase = "run"
    /\ deadline
    /\ \E w \in VUs : InFlight(w)
    /\ pc' = [w \in VUs |-> IF InFlight(w) THEN "exited" ELSE pc[w]]
    /\ ended' = [w \in VUs |-> IF InFlight(w) THEN "interrupted" ELSE ended[w]]
    /\ bookId' = [w \in VUs |-> IF InFlight(w) THEN Undefined ELSE bookId[w]]
    /\ failed' = [w \in VUs |-> IF InFlight(w) THEN {} ELSE failed[w]]
    /\ samples' = [w \in VUs |-> IF InFlight(w) THEN <<>> ELSE samples[w]]
    /\ UNCHANGED <<confVars, phase, setupVars, trend, deadline, iter, book,
                   report, httpVars, log, warmLog, thresholdsCrossed>>

\* ---------------------------------------------------------- handleSummary

\* Averages are fractions n/d of milliseconds, d > 0.
Rat(n, d) == [n |-> n, d |-> d]
RatAdd(a, b) == Rat(a.n * b.d + b.n * a.d, a.d * b.d)
RatDiv(a, k) == Rat(a.n, a.d * k)
RatEq(a, b) == a.n * b.d = b.n * a.d

\* data.metrics, as k6 hands it to handleSummary: a metric that received
\* no sample is not in it; the others carry values.avg = sum / count.
MetricAvailable(kind) == trend[kind].count > 0
MetricAvg(kind) == Rat(trend[kind].sum, trend[kind].count)

\* let avgXLatency = 0; if (data.metrics.X && data.metrics.X.values) ...
AvgOrZero(kind) ==
    IF MetricAvailable(kind) THEN MetricAvg(kind) ELSE Rat(0, 1)

\* Mutant: the mean over all samples, each kind weighted by its count.
overallWeighted(get, create, update, delete) ==
    Rat(get.n + create.n + update.n + delete.n,
        get.d + create.d + update.d + delete.d)

\* (avgGetLatency + avgCreateLatency + avgUpdateLatency + avgDeleteLatency) / 4
overallLatency(get, create, update, delete) ==
    RatDiv(RatAdd(RatAdd(RatAdd(get, create), update), delete), 4)

\* Number.prototype.toFixed(2) of an average that is not negative: the
\* number of hundredths nearest to it, the larger one of two that are as
\* near, written as its integer part and two decimals.
Hundredths(a) == (200 * a.n + a.d) \div (2 * a.d)
toFixed2(a) ==
    <<Hundredths(a) \div 100, (Hundredths(a) \div 10) % 10, Hundredths(a) % 10>>

\* "get_latency,create_latency,update_latency,delete_latency,overall_latency\n"
csvHeader ==
    <<"get_latency", "create_latency", "update_latency", "delete_latency",
      "overall_latency">>

\* Mutant: the row lists the averages in the order the unit produces them.
csvRowInUnitOrder(get, create, update, delete, overall) ==
    <<toFixed2(create), toFixed2(get), toFixed2(update), toFixed2(delete),
      toFixed2(overall)>>

\* `${avgGetLatency.toFixed(2)},${avgCreateLatency.toFixed(2)},...\n`
csvRow(get, create, update, delete, overall) ==
    <<toFixed2(get), toFixed2(create), toFixed2(update), toFixed2(delete),
      toFixed2(overall)>>

\* `bookcatalog_results_${DATABASE_TYPE}_${Date.now()}.csv`: the parts of
\* the name between the underscores and the extension.
filename(now) ==
    [prefix |-> "bookcatalog_results", label |-> DATABASE_TYPE,
     timestamp |-> now, extension |-> "csv"]

\* The readings of the clock (Date.now(), in ms) handleSummary may get.
Timestamps == {1000, 1001}

\* What handleSummary returns.  part_000 computes the averages and, beside
\* stdout, one file: the header line and the row.  benchmark.js returns
\* k6's text summary under stdout and no file.
SummaryOf(v, now) ==
    IF v = "part_000"
    THEN LET overall ==
                overallLatency(AvgOrZero("read"), AvgOrZero("create"),
                               AvgOrZero("update"), AvgOrZero("delete"))
         IN [kind |-> "csv",
             avg |-> [k \in Kinds |-> AvgOrZero(k)],
             overall |-> overall,
             warnings |-> {k \in Kinds : ~MetricAvailable(k)},
             files |-> {[name |-> filename(now),
                         lines |-> <<csvHeader,
                                     csvRow(AvgOrZero("read"), AvgOrZero("create"),
                                            AvgOrZero("update"), AvgOrZero("delete"),
                                            overall)>>]}]
    ELSE [kind |-> "text",
          metrics |-> {k \in Kinds : MetricAvailable(k)},
          files |-> {}]

\* Mutant: the report is built as soon as one VU has left.
SomeExited == \E w \in VUs : pc[w] = "exited"

\* The run is over when every VU has left the executor.
AllExited == \A w \in VUs : pc[w] = "exited"

\* The run is over: k6 evaluates the thresholds a last time and calls
\* handleSummary.
handleSummary(now) ==
    /\ phase = "run"
    /\ AllExited
    /\ thresholdsCrossed' = CrossedThresholds
    /\ report' = SummaryOf(variant, now)
    /\ phase' = "done"
    /\ UNCHANGED <<confVars, setupVars, trend, deadline, vuVars, httpVars,
                   log, warmLog>>

\* ------------------------------------------------------ the specification

Next ==
    \/ InitContext
    \/ \E r \in PostResponses : SetupPost(r)
    \/ \E r \in PlainResponses : SetupGet(r)
    \/ \E r \in PlainResponses : SetupPut(r)
    \/ \E r \in PlainResponses : SetupDel(r)
    \/ SetupReturn
    \/ \E w \in VUs : DefaultPost(w)
    \/ \E w \in VUs, r \in PostResponses : DefaultPostResponse(w, r)
    \/ \E w \in VUs : DefaultRequest(w)
    \/ \E w \in VUs, r \in PlainResponses : DefaultResponse(w, r)
    \/ \E w \in VUs : DefaultReturn(w)
    \/ DeadlinePasses
    \/ \E w \in VUs : VUExit(w)
    \/ GracefulStop
    \/ \E now \in Timestamps : handleSummary(now)

Spec == Init /\ [][Next]_vars

\* handleSummary alone, over the metrics a run may end with: one VU has run
\* up to MaxUnits units and has left the executor.  A metric of count
\* samples, each of 10 ms or of 40 ms:
SummaryTrend(count) ==
    {[count |-> count, sum |-> 10 * a + 40 * (count - a)] : a \in 0..count}

\* The n-th sample of such a metric t: those of 10 ms first.
SampleDuration(t, n) ==
    IF 10 * n + 40 * (t.count - n) >= t.sum THEN 10 ELSE 40

\* The requests of unit k of the VU, all answered: unit k has a read, an
\* update or a delete when the metric of that kind has more than k samples.
SummaryRequest(t, k, method) ==
    [unit |-> k, method |-> method,
     target |-> IF method = "post" THEN Undefined ELSE Num(1),
     answered |-> TRUE,
     id |-> IF method = "post" /\ t["read"].count > k THEN Num(1) ELSE Undefined,
     duration |-> SampleDuration(t[KindOf(method)], k + 1)]

SummaryUnit(t, k) ==
    <<SummaryRequest(t, k, "post")>>
    \o (IF t["read"].count > k THEN <<SummaryRequest(t, k, "get")>> ELSE <<>>)
    \o (IF t["update"].count > k THEN <<SummaryRequest(t, k, "put")>> ELSE <<>>)
    \o (IF t["delete"].count > k THEN <<SummaryRequest(t, k, "del")>> ELSE <<>>)

RECURSIVE SummaryLog(_, _)
SummaryLog(t, units) ==
    IF units = 0 THEN <<>>
    ELSE SummaryLog(t, units - 1) \o SummaryUnit(t, units - 1)

\* The durations of all these requests, sorted.
SummaryDurations(t) ==
    LET total == t["create"].count + t["read"].count + t["update"].count
                 + t["delete"].count
        sum == t["create"].sum + t["read"].sum + t["update"].sum
               + t["delete"].sum
    IN  [n \in 1..total |->
            IF 10 * n + 40 * (total - n) >= sum THEN 10 ELSE 40]

InitSummary ==
    /\ variant \in Variants
    /\ observed = Observers
    /\ ENV = EmptyObject
    /\ dotenv = NoFile
    /\ SERVICE_NAME = Setting("SERVICE_NAME")
    /\ BASE_URL = Setting("BASE_URL")
    /\ DURATION = Setting("DURATION")
    /\ DATABASE_TYPE = Setting("DATABASE_TYPE")
    /\ VUS = 1
    /\ WARMUP_ITERATIONS = 0
    /\ phase = "run"
    /\ i = 0
    /\ spc = "post"
    /\ warmBookId = Undefined
    /\ warmReq = [k \in Kinds |-> 0]
    /\ warmFailed = {}
    /\ \E c, g, u, d \in 0..MaxUnits :
        /\ d <= u /\ u <= g /\ g <= c
        /\ trend \in [Kinds -> UNION {SummaryTrend(n) : n \in 0..MaxUnits}]
        /\ trend["create"].count = c
        /\ trend["read"].count = g
        /\ trend["update"].count = u
        /\ trend["delete"].count = d
        /\ iter = [w \in VUs |-> c]
        /\ ended = [w \in VUs |-> IF c = 0 THEN "none" ELSE "returned"]
        /\ log = [w \in VUs |-> SummaryLog(trend, c)]
        /\ http_req_duration = SummaryDurations(trend)
        /\ http_req_failed = [passes |-> c + g + u + d, fails |-> 0]
    /\ deadline = TRUE
    /\ pc = [w \in VUs |-> "exited"]
    /\ book = [w \in VUs |-> [k \in 1..iter[w] |-> Title(w, k - 1)]]
    /\ bookId = [w \in VUs |-> Undefined]
    /\ failed = [w \in VUs |-> {}]
    /\ samples = [w \in VUs |-> <<>>]
    /\ warmLog = <<>>
    /\ thresholdsCrossed = {}
    /\ report = [kind |-> "none"]

NextSummary == \E now \in Timestamps : handleSummary(now)

SpecSummary == InitSummary /\ [][NextSummary]_vars

\* The runs over which the thresholds are checked: one VU, no warm-up, the
\* built-in metrics recorded, and a service that answers in 10 ms or in
\* 3 s.  Of the bodies of a create response the
\* thresholds read nothing: one body without identifier and the bodies with
\* a usable one are drawn.
SlowDurations == {10, 3000}

SlowPostResponses ==
    {r \in PostResponsesOf(SlowDurations) :
        \/ r.body.kind \in {"none", "object"}
        \/ r.body.kind = "objectid" /\ r.body.id \in Ids}

SlowPlainResponses == PlainResponsesOf(SlowDurations)

ThresholdEnvs == {[k \in {"VUS"} |-> <<"1">>]}

InitThresholds ==
    /\ variant \in Variants
    /\ observed = {"metrics"}
    /\ ENV \in ThresholdEnvs
    /\ dotenv = NoFile
    /\ SERVICE_NAME = <<>>
    /\ BASE_URL = <<>>
    /\ DURATION = <<>>
    /\ DATABASE_TYPE = <<>>
    /\ VUS = 0
    /\ WARMUP_ITERATIONS = 0
    /\ phase = "init"
    /\ i = 0
    /\ spc = "post"
    /\ warmBookId = Undefined
    /\ warmReq = [k \in Kinds |-> 0]
    /\ warmFailed = {}
    /\ trend = [k \in Kinds |-> NewTrend]
    /\ deadline = FALSE
    /\ pc = [w \in VUs |-> "idle"]
    /\ iter = [w \in VUs |-> 0]
    /\ book = [w \in VUs |-> <<>>]
    /\ bookId = [w \in VUs |-> Undefined]
    /\ failed = [w \in VUs |-> {}]
    /\ samples = [w \in VUs |-> <<>>]
    /\ ended = [w \in VUs |-> "none"]
    /\ http_req_failed = NewRate
    /\ http_req_duration = <<>>
    /\ log = [w \in VUs |-> <<>>]
    /\ warmLog = <<>>
    /\ thresholdsCrossed = {}
    /\ report = [kind |-> "none"]

NextThresholds ==
    \/ InitContext
    \/ SetupReturn
    \/ \E w \in VUs : DefaultPost(w)
    \/ \E w \in VUs, r \in SlowPostResponses : DefaultPostResponse(w, r)
    \/ \E w \in VUs : DefaultRequest(w)
    \/ \E w \in VUs, r \in SlowPlainResponses : DefaultResponse(w, r)
    \/ \E w \in VUs : DefaultReturn(w)
    \/ DeadlinePasses
    \/ \E w \in VUs : VUExit(w)
    \/ GracefulStop
    \/ \E now \in Timestamps : handleSummary(now)

SpecThresholds == InitThresholds /\ [][NextThresholds]_vars

\* The runs of Spec with the log of requests recorded: every request setup
\* and the virtual users issue is written down with the iteration that
\* issued it, the identifier it is addressed to and what came back.
InitLog ==
    /\ variant \in Variants
    /\ observed = {"log"}
    /\ ENV \in RunEnvs
    /\ dotenv = NoFile
    /\ SERVICE_NAME = <<>>
    /\ BASE_URL = <<>>
    /\ DURATION = <<>>
    /\ DATABASE_TYPE = <<>>
    /\ VUS = 0
    /\ WARMUP_ITERATIONS = 0
    /\ phase = "init"
    /\ i = 0
    /\ spc = "post"
    /\ warmBookId = Undefined
    /\ warmReq = [k \in Kinds |-> 0]
    /\ warmFailed = {}
    /\ trend = [k \in Kinds |-> NewTrend]
    /\ deadline = FALSE
    /\ pc = [w \in VUs |-> "idle"]
    /\ iter = [w \in VUs |-> 0]
    /\ book = [w \in VUs |-> <<>>]
    /\ bookId = [w \in VUs |-> Undefined]
    /\ failed = [w \in VUs |-> {}]
    /\ samples = [w \in VUs |-> <<>>]
    /\ ended = [w \in VUs |-> "none"]
    /\ http_req_failed = NewRate
    /\ http_req_duration = <<>>
    /\ log = [w \in VUs |-> <<>>]
    /\ warmLog = <<>>
    /\ thresholdsCrossed = {}
    /\ report = [kind |-> "none"]

SpecLog == InitLog /\ [][Next]_vars

\* The runs over which the samples of concurrent VUs are counted: MaxVUS
\* VUs, no warm-up, the log recorded, and a service that answers a create
\* in 10 ms or in 3 s, so that the sum of the metric tells which samples
\* it holds.
SampleEnvs == {[k \in {"VUS"} |-> NumText(MaxVUS)]}

InitSamples ==
    /\ variant \in Variants
    /\ observed = {"log"}
    /\ ENV \in SampleEnvs
    /\ dotenv = NoFile
    /\ SERVICE_NAME = <<>>
    /\ BASE_URL = <<>>
    /\ DURATION = <<>>
    /\ DATABASE_TYPE = <<>>
    /\ VUS = 0
    /\ WARMUP_ITERATIONS = 0
    /\ phase = "init"
    /\ i = 0
    /\ spc = "post"
    /\ warmBookId = Undefined
    /\ warmReq = [k \in Kinds |-> 0]
    /\ warmFailed = {}
    /\ trend = [k \in Kinds |-> NewTrend]
    /\ deadline = FALSE
    /\ pc = [w \in VUs |-> "idle"]
    /\ iter = [w \in VUs |-> 0]
    /\ book = [w \in VUs |-> <<>>]
    /\ bookId = [w \in VUs |-> Undefined]
    /\ failed = [w \in VUs |-> {}]
    /\ samples = [w \in VUs |-> <<>>]
    /\ ended = [w \in VUs |-> "none"]
    /\ http_req_failed = NewRate
    /\ http_req_duration = <<>>
    /\ log = [w \in VUs |-> <<>>]
    /\ warmLog = <<>>
    /\ thresholdsCrossed = {}
    /\ report = [kind |-> "none"]

\* Of a response the count of samples reads nothing but its duration: the
\* create fails without a body or returns the identifier 1, and the other
\* requests succeed, in 10 ms.
SamplePostResponses ==
    {r \in PostResponsesOf(SlowDurations) :
        \/ r.status = 0
        \/ r.status = StatusOK /\ r.body = ObjectWithId(Num(1))}

SamplePlainResponses ==
    {r \in PlainResponsesOf(Durations) : r.status = StatusOK}

NextSamples ==
    \/ InitContext
    \/ SetupReturn
    \/ \E w \in VUs : DefaultPost(w)
    \/ \E w \in VUs, r \in SamplePostResponses : DefaultPostResponse(w, r)
    \/ \E w \in VUs : DefaultRequest(w)
    \/ \E w \in VUs, r \in SamplePlainResponses : DefaultResponse(w, r)
    \/ \E w \in VUs : DefaultReturn(w)
    \/ DeadlinePasses
    \/ \E w \in VUs : VUExit(w)
    \/ GracefulStop
    \/ \E now \in Timestamps : handleSummary(now)

SpecSamples == InitSamples /\ [][NextSamples]_vars

\* The runs over which the identifiers are followed: MaxVUS VUs without
\* warm-up, or one VU after one warm-up iteration; the log recorded; and a
\* server that has one identifier more to assign than Ids, so that the
\* units of a run may get different ones.  A create that fails returns
\* none; the other requests succeed.
IdEnvs ==
    {[k \in {"VUS"} |-> NumText(MaxVUS)],
     [k \in {"VUS", "WARMUP_ITERATIONS"} |-> <<"1">>]}

AssignedIds == {Num(n) : n \in 1..(MaxId + 1)}

IdPostResponses ==
    {[status |-> StatusOK, body |-> ObjectWithId(x), duration |-> d] :
        x \in AssignedIds, d \in Durations}
    \cup {[status |-> 500, body |-> ObjectNoId, duration |-> d] : d \in Durations}

IdPlainResponses ==
    {r \in PlainResponses : r.status = StatusOK}

InitIds ==
    /\ variant \in Variants
    /\ observed = {"log"}
    /\ ENV \in IdEnvs
    /\ dotenv = NoFile
    /\ SERVICE_NAME = <<>>
    /\ BASE_URL = <<>>
    /\ DURATION = <<>>
    /\ DATABASE_TYPE = <<>>
    /\ VUS = 0
    /\ WARMUP_ITERATIONS = 0
    /\ phase = "init"
    /\ i = 0
    /\ spc = "post"
    /\ warmBookId = Undefined
    /\ warmReq = [k \in Kinds |-> 0]
    /\ warmFailed = {}
    /\ trend = [k \in Kinds |-> NewTrend]
    /\ deadline = FALSE
    /\ pc = [w \in VUs |-> "idle"]
    /\ iter = [w \in VUs |-> 0]
    /\ book = [w \in VUs |-> <<>>]
    /\ bookId = [w \in VUs |-> Undefined]
    /\ failed = [w \in VUs |-> {}]
    /\ samples = [w \in VUs |-> <<>>]
    /\ ended = [w \in VUs |-> "none"]
    /\ http_req_failed = NewRate
    /\ http_req_duration = <<>>
    /\ log = [w \in VUs |-> <<>>]
    /\ warmLog = <<>>
    /\ thresholdsCrossed = {}
    /\ report = [kind |-> "none"]

NextIds ==
    \/ InitContext
    \/ \E r \in IdPostResponses : SetupPost(r)
    \/ \E r \in IdPlainResponses : SetupGet(r)
    \/ \E r \in IdPlainResponses : SetupPut(r)
    \/ \E r \in IdPlainResponses : SetupDel(r)
    \/ SetupReturn
    \/ \E w \in VUs : DefaultPost(w)
    \/ \E w \in VUs, r \in IdPostResponses : DefaultPostResponse(w, r)
    \/ \E w \in VUs : DefaultRequest(w)
    \/ \E w \in VUs, r \in IdPlainResponses : DefaultResponse(w, r)
    \/ \E w \in VUs : DefaultReturn(w)
    \/ DeadlinePasses
    \/ \E w \in VUs : VUExit(w)
    \/ GracefulStop
    \/ \E now \in Timestamps : handleSummary(now)

SpecIds == InitIds /\ [][NextIds]_vars

\* The init code alone, over the environments and the files it may find.
\* One setting is under test at a time: the environment leaves it out or
\* sets it to one of EnvTexts; the file is missing, or has up to MaxLines
\* lines, each a line that defines nothing, a pair without a key, a pair
\* for another setting, or a pair that sets it to one of FileTexts.
EnvTexts ==
    {<<>>, <<"2">>, <<"1", "a">>, <<"a">>, <<" ", "2">>, <<"0", "x", "2">>,
     <<"-", "1">>}

FileTexts ==
    {<<>>, <<"3">>, <<"'", "3", "'">>, <<" ", "3", " ">>, <<"\"", "\"">>}

OtherKey(key) == CHOOSE o \in SettingKeys : o # key

LinesFor(key) ==
    {PlainLine("blank"), PlainLine("comment"), PlainLine("noeq"),
     PairLine("", <<"3">>), PairLine(OtherKey(key), <<"3">>)}
    \cup {PairLine(key, t) : t \in FileTexts}

InitConfig ==
    /\ variant \in Variants
    /\ observed = {}
    /\ \E key \in SettingKeys :
        /\ ENV \in {EmptyObject} \cup {[k \in {key} |-> t] : t \in EnvTexts}
        /\ dotenv \in {NoFile} \cup
              {FileOf(ls) : ls \in UNION {[1..n -> LinesFor(key)] : n \in 0..MaxLines}}
    /\ SERVICE_NAME = <<>>
    /\ BASE_URL = <<>>
    /\ DURATION = <<>>
    /\ DATABASE_TYPE = <<>>
    /\ VUS = 0
    /\ WARMUP_ITERATIONS = 0
    /\ phase = "init"
    /\ i = 0
    /\ spc = "post"
    /\ warmBookId = Undefined
    /\ warmReq = [k \in Kinds |-> 0]
    /\ warmFailed = {}
    /\ trend = [k \in Kinds |-> NewTrend]
    /\ deadline = FALSE
    /\ pc = [w \in VUs |-> "idle"]
    /\ iter = [w \in VUs |-> 0]
    /\ book = [w \in VUs |-> <<>>]
    /\ bookId = [w \in VUs |-> Undefined]
    /\ failed = [w \in VUs |-> {}]
    /\ samples = [w \in VUs |-> <<>>]
    /\ ended = [w \in VUs |-> "none"]
    /\ http_req_failed = NewRate
    /\ http_req_duration = <<>>
    /\ log = [w \in VUs |-> <<>>]
    /\ warmLog = <<>>
    /\ thresholdsCrossed = {}
    /\ report = [kind |-> "none"]

NextConfig == InitContext

SpecConfig == InitConfig /\ [][NextConfig]_vars

\* ------------------------------------------------------------- properties

AllKinds == <<"create", "read", "update", "delete">>

\* The VU is between iterations and its last execution of the default
\* function ran to its end: it returned, or the exception of the create
\* check ended it.
UnitOver(w) == pc[w] = "idle" /\ ended[w] \in {"returned", "threw"}

C2_StatusNeverSkips ==
    [][/\ \A w \in VUs, r \in PostResponses :
            (pc'[w] # pc[w] /\ DefaultPostResponse(w, r)) =>
                /\ r.status # 200 => "POST status is 200" \in failed'[w]
                /\ IF r.body.kind = "objectid" /\ r.body.id \in Ids
                   THEN pc'[w] = "sleep1" /\ ended'[w] = "running"
                   ELSE pc'[w] = "idle" /\ ended'[w] # "running"
       /\ \A w \in VUs, r \in PlainResponses :
            (pc'[w] # pc[w] /\ DefaultResponse(w, r)) =>
                /\ r.status # 200 =>
                     \/ pc[w] = "get" /\ failed'[w] = {"GET status is 200"}
                     \/ pc[w] = "put" /\ failed'[w] = {"PUT status is 200"}
                     \/ pc[w] = "del" /\ failed'[w] = {"DELETE status is 200"}
                /\ pc[w] = "get" => pc'[w] = "sleep2"
                /\ pc[w] = "put" => pc'[w] = "sleep3"
                /\ pc[w] = "del" => pc'[w] = "sleep4"
       /\ \A w \in VUs :
            (pc'[w] # pc[w] /\ DefaultRequest(w)) =>
                /\ pc[w] = "sleep1" => pc'[w] = "get"
                /\ pc[w] = "sleep2" => pc'[w] = "put"
                /\ pc[w] = "sleep3" => pc'[w] = "del"
      ]_vars

\* A unit whose read response had a status other than 200: its check has
\* failed, its sample is recorded and the unit is in the pause before its
\* update.
C2_Witness ==
    \E w \in VUs :
        /\ pc[w] = "sleep2"
        /\ failed[w] = {"GET status is 200"}
        /\ samples[w] = <<"create", "read">>

\* C3: once the create response is handled, the unit ends without read,
\* update and delete exactly when the check 'POST response has ID' failed for
\* that response.
C3_SkipIffIdCheckFails ==
    \A w \in VUs :
        (samples[w] = <<"create">> /\ pc[w] \in {"idle", "sleep1"})
            => ("POST response has ID" \in failed[w] <=> pc[w] = "idle")

\* C4: once setup has returned it has issued exactly WARMUP_ITERATIONS
\* create requests and at most as many read, update and delete requests;
\* with a count of 0 it issues none; and it never issues more.
C4_WarmupRequests ==
    /\ \A k \in Kinds : warmReq[k] <= WARMUP_ITERATIONS
    /\ phase \in {"run", "done"} => warmReq["create"] = WARMUP_ITERATIONS
    /\ warmReq["delete"] <= warmReq["update"]
    /\ warmReq["update"] <= warmReq["read"]
    /\ warmReq["read"] <= warmReq["create"]

\* The run has started after a warm-up of two iterations of which one had
\* no usable identifier.
C4_Witness ==
    /\ phase = "run"
    /\ WARMUP_ITERATIONS = 2
    /\ warmReq["create"] = 2
    /\ warmReq["read"] = 1

\* C5: setup adds no sample: as long as no VU has started an iteration,
\* each of the four Trend metrics holds zero samples.
C5_WarmupAddsNoSample ==
    (\A w \in VUs : iter[w] = 0) =>
        \A k \in Kinds : trend[k].count = 0 /\ trend[k].sum = 0

\* Setup has returned after two complete warm-up iterations and the
\* metrics are empty.
C5_Witness ==
    /\ phase = "run"
    /\ warmReq["delete"] = 2
    /\ \A k \in Kinds : trend[k].count = 0

\* C6: no failure of a warm-up step aborts the run.
C6_WarmupNeverAborts == phase # "aborted"

\* C7: a connectivity error (a response with status 0 and no body) fails the
\* checks of its step and ends no VU: on the create step both checks fail
\* and the iteration ends with the VU between iterations, on a later step
\* the unit goes on; a VU leaves the executor only once the duration has
\* elapsed, and until then a VU between iterations can start the next one.
C7_ErrorsNeverFatal ==
    /\ [][/\ \A w \in VUs, r \in PostResponses :
                (r.status = 0 /\ pc'[w] # pc[w] /\ DefaultPostResponse(w, r)) =>
                    /\ failed'[w] = {"POST status is 200", "POST response has ID"}
                    /\ pc'[w] = "idle"
          /\ \A w \in VUs, r \in PlainResponses :
                (r.status = 0 /\ pc'[w] # pc[w] /\ DefaultResponse(w, r)) =>
                    /\ failed'[w] # {}
                    /\ pc'[w] \in {"sleep2", "sleep3", "sleep4"}
          /\ \A w \in VUs :
                (pc[w] # "exited" /\ pc'[w] = "exited") => deadline
         ]_vars
    /\ [](\A w \in VUs :
            (phase = "run" /\ pc[w] = "idle" /\ ~deadline /\ Started < MaxUnits)
                => ENABLED DefaultPost(w))

\* A VU whose create request failed to connect is between iterations,
\* before the deadline, and can start its next unit.
C7_Witness ==
    /\ ~deadline
    /\ \E w \in VUs :
        /\ ended[w] = "threw"
        /\ pc[w] = "idle"
        /\ ENABLED DefaultPost(w)

\* C8 as stated: no unit starts after the deadline, and no unit is ever
\* cancelled.
C8_NeverCancelled ==
    [][/\ deadline => iter' = iter
       /\ \A w \in VUs : ended'[w] # "interrupted"
      ]_vars

\* C8, amended: no unit starts after the deadline, and the deadline itself
\* cancels nothing: when it passes every unit in flight stays where it is,
\* after it a unit can still issue its next request, and a unit is cut
\* short only after the deadline, by the end of the graceful-stop period.
C8_CooperativeDeadline ==
    /\ [][/\ deadline => (iter' = iter /\ book' = book)
          /\ (~deadline /\ deadline') =>
                (pc' = pc /\ ended' = ended /\ samples' = samples)
          /\ \A w \in VUs :
                (ended[w] # "interrupted" /\ ended'[w] = "interrupted") =>
                    (deadline /\ InFlight(w))
         ]_vars
    /\ [](\A w \in VUs :
            (phase = "run" /\ deadline /\ pc[w] \in {"sleep1", "sleep2", "sleep3"})
                => ENABLED DefaultRequest(w))
    /\ [](\A w \in VUs :
            (deadline /\ ended[w] = "returned" /\ Truthy(bookId[w]))
                => samples[w] = AllKinds)

\* The deadline has passed and a unit that was not cancelled has since
\* returned with its four samples, while another is still in flight.
C8_Witness ==
    /\ deadline
    /\ \E w1, w2 \in VUs :
        /\ pc[w1] = "del"
        /\ pc[w2] = "idle" /\ ended[w2] = "returned" /\ samples[w2] = AllKinds

\* C9: the executor runs exactly VUS virtual users, numbered 1..VUS, and
\* the titles generated from (__VU, __ITER) are pairwise distinct over all
\* the units of the run.
C9_DistinctIdentities ==
    /\ DOMAIN pc = 1..VUS
    /\ Cardinality(DOMAIN pc) = VUS
    /\ \A w1, w2 \in VUs :
        \A k1 \in 1..Len(book[w1]), k2 \in 1..Len(book[w2]) :
            <<w1, k1>> # <<w2, k2>> => book[w1][k1] # book[w2][k2]

\* Two VUs have started one unit each.
C9_Witness ==
    /\ VUS = 2
    /\ Len(book[1]) = 1
    /\ Len(book[2]) = 1

\* The average of a kind as the report must show it: sum / count, and 0 for
\* a kind without samples, as the pair <<numerator, denominator>>.
ExpectedAvg(k) ==
    IF trend[k].count = 0 THEN <<0, 1>> ELSE <<trend[k].sum, trend[k].count>>

IsRounded(text, num, den) ==
    LET h == 100 * text[1] + 10 * text[2] + text[3]
    IN  /\ text[2] \in 0..9
        /\ text[3] \in 0..9
        /\ 2 * h * den <= 200 * num + den
        /\ 200 * num + den < 2 * (h + 1) * den

\* Whether f is the CSV file of the run: its name is made of the prefix, the
\* DATABASE_TYPE label and a timestamp, and it holds the header and one row:
\* the get, create, update and delete averages and the overall average, in
\* this order, with two decimals.
IsCsvOfRun(f) ==
    /\ f.name.prefix = "bookcatalog_results"
    /\ f.name.label = DATABASE_TYPE
    /\ f.name.timestamp \in Timestamps
    /\ f.name.extension = "csv"
    /\ Len(f.lines) = 2
    /\ f.lines[1] = <<"get_latency", "create_latency", "update_latency",
                      "delete_latency", "overall_latency">>
    /\ Len(f.lines[2]) = 5
    /\ LET g == ExpectedAvg("read")
           c == ExpectedAvg("create")
           u == ExpectedAvg("update")
           d == ExpectedAvg("delete")
       IN  /\ IsRounded(f.lines[2][1], g[1], g[2])
           /\ IsRounded(f.lines[2][2], c[1], c[2])
           /\ IsRounded(f.lines[2][3], u[1], u[2])
           /\ IsRounded(f.lines[2][4], d[1], d[2])
           /\ IsRounded(f.lines[2][5],
                        g[1] * c[2] * u[2] * d[2] + c[1] * g[2] * u[2] * d[2]
                        + u[1] * g[2] * c[2] * d[2] + d[1] * g[2] * c[2] * u[2],
                        4 * g[2] * c[2] * u[2] * d[2])

\* C11 as stated: every completed run has persisted exactly one file, the
\* CSV file of the run.
C11_OneCsvPerRun ==
    phase = "done" =>
        /\ Cardinality(report.files) = 1
        /\ \A f \in report.files : IsCsvOfRun(f)

\* C11, amended: a completed run of part_000 has persisted exactly one file,
\* the CSV file of the run; a completed run of benchmark.js has persisted
\* none.
C11_OneCsvPerRunOfPart000 ==
    phase = "done" =>
        IF variant = "part_000"
        THEN /\ Cardinality(report.files) = 1
             /\ \A f \in report.files : IsCsvOfRun(f)
        ELSE report.files = {}

\* The CSV file of a run whose averages are 25 (create), 40 (read), 10
\* (update) and none (delete): the row 40.00,25.00,10.00,0.00,18.75.
C11_Witness ==
    /\ phase = "done"
    /\ variant = "part_000"
    /\ trend["create"] = [count |-> 2, sum |-> 50]
    /\ trend["read"] = [count |-> 1, sum |-> 40]
    /\ trend["update"] = [count |-> 1, sum |-> 10]
    /\ trend["delete"].count = 0
    /\ \E f \in report.files :
        f.lines[2] = <<<<40, 0, 0>>, <<25, 0, 0>>, <<10, 0, 0>>, <<0, 0, 0>>,
                       <<18, 7, 5>>>>

\* Whether the environment sets key to a text that is not empty.
EnvSets(key) == key \in DOMAIN ENV /\ Len(ENV[key]) > 0

\* The lines of the file that define key, and the value the file defines
\* for it: that of the last such line, without the white space and the
\* quotes around it.
DefiningLines(key) ==
    {n \in 1..Len(dotenv.lines) :
        dotenv.lines[n].kind = "pair" /\ dotenv.lines[n].key = key}

FileDefines(key) == dotenv.exists /\ DefiningLines(key) # {}

FileValue(key) ==
    LET last == CHOOSE n \in DefiningLines(key) :
                    \A m \in DefiningLines(key) : m <= n
    IN  StripQuotes(Trim(dotenv.lines[last].value))

\* Whether the six settings are what the init code makes of the texts that
\* text(key) resolves them to.
ResolvedTo(text(_)) ==
    /\ SERVICE_NAME = text("SERVICE_NAME")
    /\ BASE_URL = text("BASE_URL")
    /\ DURATION = text("DURATION")
    /\ DATABASE_TYPE = text("DATABASE_TYPE")
    /\ WARMUP_ITERATIONS = LoopBound(parseInt(text("WARMUP_ITERATIONS")))
    /\ IF VusAccepted(parseInt(text("VUS")))
       THEN phase = "setup" /\ VUS = parseInt(text("VUS")).v
       ELSE phase = "rejected"

\* The resolution order as stated: the environment variable when it is set
\* and not empty, else the value the file defines, else the default.
StatedOrder(key) ==
    IF EnvSets(key) THEN ENV[key]
    ELSE IF FileDefines(key) THEN FileValue(key)
    ELSE DefaultOf(variant, key)

\* C12 as stated: once the init code has run, each setting is resolved from
\* the environment variable when it is set and not empty, else from the
\* value the file .env defines for it, else from the default; a file that
\* is missing defines nothing and is no error.
C12_ResolutionOrder ==
    phase # "init" => ResolvedTo(StatedOrder)

\* The resolution order of the code: a value the file defines counts only
\* in benchmark.js, and only when it is not empty.
AmendedOrder(key) ==
    IF EnvSets(key) THEN ENV[key]
    ELSE IF variant = "benchmark" /\ FileDefines(key) /\ Len(FileValue(key)) > 0
         THEN FileValue(key)
         ELSE DefaultOf(variant, key)

\* C12, amended: once the init code has run, each setting is resolved from
\* the environment variable when it is set and not empty; else, in
\* benchmark.js, from the value the file .env defines for it when that
\* value is not empty; else from the default.  part_000 reads no file.  A
\* file that is missing defines nothing and is no error: k6 rejects a run
\* for the VUS it resolves to, and for nothing else.
C12_ResolutionOrderNonEmpty ==
    phase # "init" => ResolvedTo(AmendedOrder)

\* benchmark.js has resolved DATABASE_TYPE from the file, the environment
\* variable being set but empty: the value of the last line that defines
\* it, without its quotes.
C12_Witness ==
    /\ phase = "setup"
    /\ variant = "benchmark"
    /\ "DATABASE_TYPE" \in DOMAIN ENV
    /\ ENV["DATABASE_TYPE"] = <<>>
    /\ dotenv = FileOf(<<PairLine("DATABASE_TYPE", <<>>),
                         PairLine("DATABASE_TYPE", <<"'", "3", "'">>)>>)
    /\ DATABASE_TYPE = <<"3">>

\* Whether a text is an integer written in base 10: decimal digits, and
\* nothing else but a sign before them.
DecimalDigits == {"0", "1", "2", "3", "4", "5", "6", "7", "8", "9"}

IsBase10Integer(s) ==
    LET digits == IF s # <<>> /\ Head(s) \in {"-", "+"} THEN Tail(s) ELSE s
    IN  /\ digits # <<>>
        /\ \A n \in 1..Len(digits) : digits[n] \in DecimalDigits

\* C13: in a run whose VUS setting is not an integer written in base 10, no
\* HTTP request is ever issued, neither by the warm-up nor by a virtual user.
C13_MalformedVusFailsFast ==
    ~IsBase10Integer(Setting("VUS")) =>
        /\ \A k \in Kinds : warmReq[k] = 0
        /\ \A w \in VUs : iter[w] = 0

\* One hundred times the 95th percentile of the sorted durations: the
\* sample at 95 % of the way from the first to the last, or between two
\* samples their mean weighted by the distance.
P95Times100(values) ==
    LET x == 95 * (Len(values) - 1)
        lo == (x \div 100) + 1
        share == x % 100
    IN  IF Len(values) = 0 THEN 0
        ELSE IF share = 0 THEN 100 * values[lo]
        ELSE (100 - share) * values[lo] + share * values[lo + 1]

\* Whether the metrics as they are violate a threshold: at least 1 % of the
\* requests have failed, or the 95th percentile of their durations is at
\* least 2000 ms.
Violation ==
    \/ /\ http_req_failed.fails > 0
       /\ 100 * http_req_failed.fails >= http_req_failed.passes + http_req_failed.fails
    \/ P95Times100(http_req_duration) >= 100 * 2000

\* C14: a run that ends with at least 1 % of its requests failed, or with a
\* 95th percentile of the request durations of at least 2000 ms, is marked
\* failed; and a violation ends nothing: while the metrics violate a threshold
\* a VU between iterations can still start the next one before the deadline,
\* a VU leaves the executor only after the deadline, and handleSummary
\* runs once every VU has left.
C14_ThresholdsMarkNeverAbort ==
    /\ [](phase = "done" => (Violation => thresholdsCrossed # {}))
    /\ [](\A w \in VUs :
            (phase = "run" /\ Violation /\ pc[w] = "idle" /\ ~deadline
             /\ Started < MaxUnits) => ENABLED DefaultPost(w))
    /\ []((phase = "run" /\ Violation /\ AllExited) =>
            \A now \in Timestamps : ENABLED handleSummary(now))
    /\ [][\A w \in VUs : (pc[w] # "exited" /\ pc'[w] = "exited") => deadline]_vars
    /\ [](phase = "done" => report.kind # "none")

\* Before the deadline the VU has started its second unit although the
\* first one took the 95th percentile of the durations over the threshold,
\* without any failed request.
C14_Witness ==
    /\ phase = "run"
    /\ ~deadline
    /\ iter[1] = 2
    /\ pc[1] = "post"
    /\ http_req_failed.fails = 0
    /\ http_req_duration = <<10, 10, 10, 3000>>
    /\ CrossedThresholds = {"http_req_duration"}

\* The requests of VU w whose response has not arrived.
Outstanding(w) == {k \in 1..Len(log[w]) : ~log[w][k].answered}

\* Request b may follow request a in the log of a VU: within a unit the
\* method after post is get, after get put, after put del; any other
\* request is the post of the next unit.
Follows(a, b) ==
    IF b.unit = a.unit
    THEN <<a.method, b.method>> \in
            {<<"post", "get">>, <<"get", "put">>, <<"put", "del">>}
    ELSE b.method = "post" /\ b.unit = a.unit + 1

\* C15: a VU has at most one request without response, and it is the one it
\* issued last, so every request was issued after the response to the one
\* before; a VU that awaits a response awaits that of this request, a VU
\* that pauses or is between iterations awaits none; and the requests of a
\* unit come in the order create, read, update, delete.
C15_WorkerSequential ==
    \A w \in VUs :
        /\ Cardinality(Outstanding(w)) <= 1
        /\ Outstanding(w) \subseteq {Len(log[w])}
        /\ pc[w] \in {"post", "get", "put", "del"} =>
                /\ Outstanding(w) = {Len(log[w])}
                /\ log[w][Len(log[w])].method = pc[w]
        /\ pc[w] \in {"idle", "sleep1", "sleep2", "sleep3", "sleep4"} =>
                Outstanding(w) = {}
        /\ Len(log[w]) > 0 => log[w][1].method = "post" /\ log[w][1].unit = 0
        /\ \A k \in 1..(Len(log[w]) - 1) : Follows(log[w][k], log[w][k + 1])

\* Two VUs run at once: the first has got the responses to the four
\* requests of its unit while the second awaits the response to its create.
C15_Witness ==
    /\ phase = "run"
    /\ VUS = 2
    /\ Len(log[1]) = 4
    /\ \A k \in 1..4 : log[1][k].answered /\ log[1][k].unit = 0
    /\ log[1][4].method = "del"
    /\ pc[2] = "post"
    /\ Outstanding(2) = {1}

\* The steps from one phase of a run to the next.
PhaseOrder ==
    {<<"init", "setup">>, <<"init", "rejected">>, <<"setup", "run">>,
     <<"setup", "aborted">>, <<"run", "done">>}

\* C16: the phases follow one another in one order; setup issues a request
\* only while no VU has started an iteration, and a VU starts one only
\* after setup has left its warm-up loop; the report is built when every
\* VU has left the executor, from the Trend metrics as they are then, and
\* no sample is added to them afterwards.
C16_PhasesOrdered ==
    /\ [][phase' # phase => <<phase, phase'>> \in PhaseOrder]_vars
    /\ [][warmReq' # warmReq =>
            phase = "setup" /\ \A w \in VUs : iter'[w] = 0 /\ pc'[w] = "idle"]_vars
    /\ [][(phase # "init" /\ iter' # iter) =>
            phase = "run" /\ spc = "post" /\ ~WarmupLoopRuns(i)]_vars
    /\ [][report' # report =>
            /\ \A w \in VUs : pc[w] = "exited"
            /\ \E now \in Timestamps : report' = SummaryOf(variant, now)
            /\ trend' = trend]_vars
    /\ [](phase = "done" =>
            /\ \A w \in VUs : pc[w] = "exited"
            /\ \E now \in Timestamps : report = SummaryOf(variant, now))
    /\ [][phase = "done" => trend' = trend]_vars

\* A run with warm-up has ended: setup has issued its requests, the VU has
\* recorded the samples of a whole unit, and the report is built.
C16_Witness ==
    /\ phase = "done"
    /\ WARMUP_ITERATIONS > 0
    /\ warmReq["delete"] = WARMUP_ITERATIONS
    /\ trend["delete"].count > 0
    /\ report.kind # "none"

\* The total of the durations of the answered requests of one method in
\* the requests of a VU, and their number.
RECURSIVE AnsweredTime(_, _)
AnsweredTime(requests, method) ==
    IF requests = <<>> THEN 0
    ELSE (IF Head(requests).answered /\ Head(requests).method = method
          THEN Head(requests).duration ELSE 0)
         + AnsweredTime(Tail(requests), method)

AnsweredCount(requests, method) ==
    Cardinality({k \in 1..Len(requests) :
                    requests[k].answered /\ requests[k].method = method})

\* The steps of one kind the VUs have completed, each VU on its own: how
\* many, and the total of their latencies.
StepsCompleted(method) ==
    SumTo([w \in VUs |-> AnsweredCount(log[w], method)], VUS)

StepsTime(method) ==
    SumTo([w \in VUs |-> AnsweredTime(log[w], method)], VUS)

\* C17: in every state of a run, and so at its end, the Trend of each kind
\* holds as many samples as the VUs together have completed steps of that
\* kind, and their sum is the total of the latencies of these steps: count
\* and mean are those of the samples each VU contributed, in whatever
\* order the VUs contributed them.
C17_NoSampleLost ==
    \A method \in {"post", "get", "put", "del"} :
        /\ trend[KindOf(method)].count = StepsCompleted(method)
        /\ trend[KindOf(method)].sum = StepsTime(method)

\* The run has ended; the first two VUs have each completed a create, one in 3 s
\* and the other in 10 ms, and the Trend holds both samples.
C17_Witness ==
    /\ phase = "done"
    /\ VUS >= 2
    /\ Len(log[1]) > 0 /\ Len(log[2]) > 0
    /\ log[1][1].answered /\ log[1][1].duration = 3000
    /\ log[2][1].answered /\ log[2][1].duration = 10
    /\ trend["create"] = [count |-> 2, sum |-> 3010]

\* The units whose create returned a usable identifier, over all the VUs.
UsableUnits ==
    SumTo([w \in VUs |->
             Cardinality({k \in 1..Len(log[w]) :
                            log[w][k].method = "post" /\ log[w][k].id # Undefined})],
          VUS)

\* The units k6 interrupted when the graceful-stop period expired.
InterruptedUnits ==
    Cardinality({w \in VUs : ended[w] = "interrupted"})

\* The order of the counts during the measurement phase.
CountsOrdered ==
    /\ trend["delete"].count <= trend["update"].count
    /\ trend["update"].count <= trend["read"].count
    /\ trend["read"].count <= trend["create"].count
    /\ trend["read"].count - trend["delete"].count <= VUS

\* C18 as stated: the counts are ordered, and once every VU has left the
\* executor the read, update and delete counts all equal the number of
\* units whose create returned a usable identifier.
C18_SampleCounts ==
    phase \in {"run", "done"} =>
        /\ CountsOrdered
        /\ (\A w \in VUs : pc[w] = "exited") =>
                /\ trend["read"].count = UsableUnits
                /\ trend["update"].count = UsableUnits
                /\ trend["delete"].count = UsableUnits

\* C18, amended: the counts are ordered, no count of a later step exceeds
\* the number of units whose create returned a usable identifier, and once
\* every VU has left the executor each of them falls short of that number
\* by no more than the number of units the graceful stop interrupted, so
\* that they all equal it when no unit was interrupted.
C18_SampleCountsUpToInterrupted ==
    phase \in {"run", "done"} =>
        /\ CountsOrdered
        /\ trend["read"].count <= UsableUnits
        /\ (\A w \in VUs : pc[w] = "exited") =>
                /\ UsableUnits - InterruptedUnits <= trend["delete"].count
                /\ InterruptedUnits = 0 =>
                        /\ trend["read"].count = UsableUnits
                        /\ trend["update"].count = UsableUnits
                        /\ trend["delete"].count = UsableUnits

\* Two VUs have left the executor after a unit each; both creates returned
\* a usable identifier, one unit ran to its end and the other was
\* interrupted while it awaited the response to its update.
C18_Witness ==
    /\ phase = "done"
    /\ VUS = 2
    /\ UsableUnits = 2
    /\ InterruptedUnits = 1
    /\ trend["read"].count = 2
    /\ trend["update"].count = 1
    /\ trend["delete"].count = 1

\* The delete requests of unit u in the requests of one VU, or of setup,
\* that are addressed to the identifier id.
DeletesOf(requests, u, id) ==
    {k \in 1..Len(requests) :
        /\ requests[k].method = "del"
        /\ requests[k].unit = u
        /\ requests[k].target = id}

\* The creates among the requests that returned a usable identifier.
UsableCreates(requests) ==
    {k \in 1..Len(requests) :
        requests[k].method = "post" /\ requests[k].id # Undefined}

\* Unit u of VU w has ended: the VU has started a later one, or is between
\* iterations, or has left the executor.  Warm-up iteration u has ended
\* when the loop index has passed it or setup is over.
UnitEnded(w, u) == u < iter[w] - 1 \/ pc[w] \in {"idle", "exited"}

WarmupUnitEnded(u) == u < i \/ phase \in {"run", "done"}

\* Unit u of VU w was interrupted by the graceful stop: it is the last one
\* the VU started.
UnitInterrupted(w, u) == ended[w] = "interrupted" /\ u = iter[w] - 1

\* C19 as stated: a unit that has ended, in warm-up or in measurement, and
\* whose create returned a usable identifier has issued a delete request
\* for it; every such identifier is the target of exactly one delete
\* request of its unit, in every state and so when the run is over.
C19_NothingLeftBehind ==
    /\ \A k \in UsableCreates(warmLog) :
          /\ Cardinality(DeletesOf(warmLog, warmLog[k].unit, warmLog[k].id)) <= 1
          /\ WarmupUnitEnded(warmLog[k].unit) =>
                DeletesOf(warmLog, warmLog[k].unit, warmLog[k].id) # {}
    /\ \A w \in VUs : \A k \in UsableCreates(log[w]) :
          /\ Cardinality(DeletesOf(log[w], log[w][k].unit, log[w][k].id)) <= 1
          /\ UnitEnded(w, log[w][k].unit) =>
                DeletesOf(log[w], log[w][k].unit, log[w][k].id) # {}

\* C19, amended: the same of every unit but those the graceful stop
\* interrupted, which end wherever they are and delete nothing more.
C19_NothingLeftBehindUnlessInterrupted ==
    /\ \A k \in UsableCreates(warmLog) :
          /\ Cardinality(DeletesOf(warmLog, warmLog[k].unit, warmLog[k].id)) <= 1
          /\ WarmupUnitEnded(warmLog[k].unit) =>
                DeletesOf(warmLog, warmLog[k].unit, warmLog[k].id) # {}
    /\ \A w \in VUs : \A k \in UsableCreates(log[w]) :
          /\ Cardinality(DeletesOf(log[w], log[w][k].unit, log[w][k].id)) <= 1
          /\ (UnitEnded(w, log[w][k].unit)
              /\ ~UnitInterrupted(w, log[w][k].unit)) =>
                DeletesOf(log[w], log[w][k].unit, log[w][k].id) # {}

\* A run with warm-up is over: the warm-up iteration and the unit of the VU
\* each created an entity and each issued the delete request for it.
C19_Witness ==
    /\ phase = "done"
    /\ VUS = 1
    /\ UsableCreates(warmLog) # {}
    /\ \A k \in UsableCreates(warmLog) :
          DeletesOf(warmLog, warmLog[k].unit, warmLog[k].id) # {}
    /\ UsableCreates(log[1]) # {}
    /\ \A k \in UsableCreates(log[1]) :
          DeletesOf(log[1], log[1][k].unit, log[1][k].id) # {}
    /\ ended[1] = "returned"

\* The identifier the create of unit u returned to VU w, once it has.
OwnIds(w, u) ==
    {log[w][j].id : j \in {j \in 1..Len(log[w]) :
                              /\ log[w][j].method = "post"
                              /\ log[w][j].unit = u
                              /\ log[w][j].answered
                              /\ log[w][j].id # Undefined}}

\* The identifiers returned to anyone else: to the other VUs, to the other
\* units of VU w, and to the warm-up iterations.
ForeignIds(w, u) ==
    UNION {{log[v][j].id : j \in {j \in UsableCreates(log[v]) :
                                     <<v, log[v][j].unit>> # <<w, u>>}} :
           v \in VUs}
    \cup {warmLog[j].id : j \in UsableCreates(warmLog)}

\* C20: every read, update and delete request of a VU is addressed to the
\* identifier the create of the same unit returned, and to no identifier
\* returned to another VU, to another unit of the VU or to a warm-up
\* iteration that differs from it.
C20_IdsNeverCross ==
    \A w \in VUs : \A k \in 1..Len(log[w]) :
        log[w][k].method # "post" =>
            /\ OwnIds(w, log[w][k].unit) = {log[w][k].target}
            /\ log[w][k].target \notin
                    ForeignIds(w, log[w][k].unit) \ OwnIds(w, log[w][k].unit)

\* Two VUs each hold an identifier of their own, 1 and 2, and each has
\* issued its read for the one it holds.
C20_Witness ==
    /\ phase = "run"
    /\ VUS >= 2
    /\ Len(log[1]) = 2 /\ Len(log[2]) = 2
    /\ log[1][1].id = Num(1) /\ log[2][1].id = Num(2)
    /\ log[1][2].method = "get" /\ log[1][2].target = Num(1)
    /\ log[2][2].method = "get" /\ log[2][2].target = Num(2)

====
